---- MODULE Spec2Model ----
(***************************************************************************)
(* A model of src/main.py: a 2D collision simulation.  A bounded world of  *)
(* circular dots, a spatial grid rebuilt every frame, pairwise elastic     *)
(* collisions, and a camera (offset, zoom) driven by input events.         *)
(*                                                                         *)
(* Numbers.  The program computes in Python floats.  The model computes    *)
(* in exact rationals <<n, d>> (d > 0, lowest terms): it is the real-      *)
(* number semantics of the code, without rounding.  The one irrational     *)
(* step, dist = math.hypot(dx, dy), only ever occurs in the products       *)
(* dot_product * nx and dot_product * ny, which equal                      *)
(* ((dv . d) * dx) / dist^2 and ((dv . d) * dy) / dist^2; the sign of      *)
(* dot_product is the sign of dv . d; and dist = 0 iff dx = dy = 0.        *)
(***************************************************************************)
EXTENDS Integers, Sequences, FiniteSets, TLC

VARIABLES
    DOTS,              \* the list of Dot objects: pos, vel, size, visible (no color)
    grid,              \* the defaultdict of the last rebuild, in insertion order
    current_zoom,      \* rational
    CURRENT_POSITION,  \* camera offset, a pair of rationals
    WINDOW_SIZE,       \* pair of integers
    mouse,             \* (mouse_x, mouse_y) as last read by the main loop
    is_paused,
    running,
    pc,                \* "loop" while the main loop runs, "quit", "crashed"
    last,              \* what the last step was: "init", "tick", "paused", an event name
    adv,               \* history: the dots right after the update() pass of the last tick
    calls,             \* history: per pair, resolve_collision invocations in the last tick
    tested,            \* history: the pairs detect_collision was called on in the last tick
    before,            \* history: the camera (zoom, offset) before the last wheel event
    ticksLeft, eventsLeft, wheelLeft   \* what the run may still do (the bounds)

vars == << DOTS, grid, current_zoom, CURRENT_POSITION, WINDOW_SIZE, mouse,
           is_paused, running, pc, last, adv, calls, tested, before,
           ticksLeft, eventsLeft, wheelLeft >>

-----------------------------------------------------------------------------
(* Exact rational arithmetic.                                              *)

Abs(x) == IF x < 0 THEN -x ELSE x

RECURSIVE GCD(_, _)
GCD(a, b) == IF b = 0 THEN a ELSE GCD(b, a % b)

Norm(n, d) ==
    LET g == GCD(Abs(n), Abs(d))
        s == IF d < 0 THEN -1 ELSE 1
    IN  << (s * n) \div g, (s * d) \div g >>

R(i) == << i, 1 >>
RAdd(a, b) ==
    LET g == GCD(a[2], b[2])
    IN  Norm(a[1] * (b[2] \div g) + b[1] * (a[2] \div g), (a[2] \div g) * b[2])
RNeg(a) == << -a[1], a[2] >>
RSub(a, b) == RAdd(a, RNeg(b))
RMul(a, b) ==
    LET g1 == GCD(Abs(a[1]), b[2])
        g2 == GCD(Abs(b[1]), a[2])
    IN  Norm((a[1] \div g1) * (b[1] \div g2), (a[2] \div g2) * (b[2] \div g1))
RInv(a) == Norm(a[2], a[1])
RDiv(a, b) == RMul(a, RInv(b))
RLt(a, b) ==
    LET g == GCD(a[2], b[2])
    IN  a[1] * (b[2] \div g) < b[1] * (a[2] \div g)
RLe(a, b) == ~RLt(b, a)
RMax(a, b) == IF RLt(a, b) THEN b ELSE a
RMin(a, b) == IF RLt(b, a) THEN b ELSE a
RAbs(a) == << Abs(a[1]), a[2] >>
RFloor(a) == a[1] \div a[2]

-----------------------------------------------------------------------------
(* Configuration.                                                          *)

WORLD_SIZE == << 6000, 4500 >>
GRID_SIZE == 25
InitialWindow == << 800, 600 >>
InitialPosition == << Norm(-WORLD_SIZE[1], 2), Norm(-WORLD_SIZE[2], 2) >>

neighbor_offsets ==
    << <<-1, -1>>, <<-1, 0>>, <<-1, 1>>, <<0, -1>>,
       <<0, 1>>, <<1, -1>>, <<1, 0>>, <<1, 1>> >>


-----------------------------------------------------------------------------
(* Dot.update: one axis of the move-and-bounce step.                       *)

OutOfRange(p, size, limit) == RLt(p, R(size)) \/ RLt(R(limit - size), p)

\* a clamp that forgets the near wall
ClampFarWallOnly(p, size, limit) == RMin(p, R(limit - size))

Clamp(p, size, limit) == RMax(R(size), RMin(p, R(limit - size)))

\* the new (position, velocity) of one axis
AxisUpdate(p, v, size, limit) ==
    LET q == RAdd(p, v)
    IN  IF OutOfRange(q, size, limit)
        THEN << Clamp(q, size, limit), RNeg(v) >>
        ELSE << q, v >>

update(dot) ==
    LET ax == AxisUpdate(dot.pos[1], dot.vel[1], dot.size, WORLD_SIZE[1])
        ay == AxisUpdate(dot.pos[2], dot.vel[2], dot.size, WORLD_SIZE[2])
    IN  [dot EXCEPT !.pos = << ax[1], ay[1] >>, !.vel = << ax[2], ay[2] >>]

(* get_grid_cell: the cell side is GRID_SIZE / current_zoom.               *)
adjusted_grid_size(zoom) == RDiv(R(GRID_SIZE), zoom)

get_grid_cell(position, zoom) ==
    << RFloor(RDiv(position[1], adjusted_grid_size(zoom))),
       RFloor(RDiv(position[2], adjusted_grid_size(zoom))) >>

(* The spatial grid: a defaultdict(list), kept as the sequence of its      *)
(* (key, bucket) items in insertion order; buckets hold indices into DOTS. *)
\* a rebuild that keeps the buckets of the frame before
StaleGrid == grid

NewGrid == << >>

HasCell(g, cell) == \E k \in 1..Len(g) : g[k].cell = cell

Bucket(g, cell) == g[CHOOSE k \in 1..Len(g) : g[k].cell = cell].dots

GridAppend(g, cell, i) ==
    IF HasCell(g, cell)
    THEN [k \in 1..Len(g) |->
            IF g[k].cell = cell
            THEN [g[k] EXCEPT !.dots = Append(@, i)]
            ELSE g[k]]
    ELSE Append(g, [cell |-> cell, dots |-> << i >>])

\* the second half of Dot.update, for dots i..Len(ds) in list order
RECURSIVE Rebuild(_, _, _, _)
Rebuild(ds, i, g, zoom) ==
    IF i > Len(ds) THEN g
    ELSE Rebuild(ds, i + 1, GridAppend(g, get_grid_cell(ds[i].pos, zoom), i), zoom)

-----------------------------------------------------------------------------
(* detect_collision and resolve_collision.                                 *)

detect_collision(dot1, dot2) ==
    LET dist_x == RAbs(RSub(dot1.pos[1], dot2.pos[1]))
        dist_y == RAbs(RSub(dot1.pos[2], dot2.pos[2]))
        reach  == R(dot1.size + dot2.size)
        dx     == RSub(dot1.pos[1], dot2.pos[1])
        dy     == RSub(dot1.pos[2], dot2.pos[2])
    IN  IF RLt(reach, dist_x) \/ RLt(reach, dist_y)
        THEN FALSE
        ELSE RLt(RAdd(RMul(dx, dx), RMul(dy, dy)), RMul(reach, reach))

\* a resolver without the early return
NeverMovingAway(raw) == FALSE

\* "if dot_product > 0: return", on raw = dot_product * dist
MovingAway(raw) == raw[1] > 0

\* coeff * m * n_axis, with coeff = 2 * dot_product / (m1 + m2); the two
\* divisions by dist (one in dot_product, one in n_axis) are taken together
Impulse(raw, m, msum, comp, dist2) ==
    RMul(RMul(RDiv(RMul(R(2), RDiv(raw, dist2)), R(msum)), R(m)), comp)

\* dot1.vel after the call
NewVel1(vel1, raw, m1, m2, dx, dy, dist2) ==
    << RAdd(vel1[1], Impulse(raw, m2, m1 + m2, dx, dist2)),
       RAdd(vel1[2], Impulse(raw, m2, m1 + m2, dy, dist2)) >>

\* dot2 pushed back with its own mass instead of dot1's
NewVel2OwnMass(vel2, raw, m1, m2, dx, dy, dist2) ==
    << RSub(vel2[1], Impulse(raw, m2, m1 + m2, dx, dist2)),
       RSub(vel2[2], Impulse(raw, m2, m1 + m2, dy, dist2)) >>

\* dot2.vel after the call
NewVel2(vel2, raw, m1, m2, dx, dy, dist2) ==
    << RSub(vel2[1], Impulse(raw, m1, m1 + m2, dx, dist2)),
       RSub(vel2[2], Impulse(raw, m1, m1 + m2, dy, dist2)) >>

\* the outcome of one call: the two velocities, or the ZeroDivisionError
\* that "dx / dist" raises when the centres coincide
resolve_collision(dot1, dot2) ==
    LET dx    == RSub(dot2.pos[1], dot1.pos[1])
        dy    == RSub(dot2.pos[2], dot1.pos[2])
        dist2 == RAdd(RMul(dx, dx), RMul(dy, dy))
        raw   == RAdd(RMul(RSub(dot2.vel[1], dot1.vel[1]), dx),
                      RMul(RSub(dot2.vel[2], dot1.vel[2]), dy))
    IN  IF dist2[1] = 0
        THEN [raised |-> TRUE, vel1 |-> dot1.vel, vel2 |-> dot2.vel]
        ELSE IF MovingAway(raw)
        THEN [raised |-> FALSE, vel1 |-> dot1.vel, vel2 |-> dot2.vel]
        ELSE [raised |-> FALSE,
              vel1 |-> NewVel1(dot1.vel, raw, dot1.size, dot2.size, dx, dy, dist2),
              vel2 |-> NewVel2(dot2.vel, raw, dot1.size, dot2.size, dx, dy, dist2)]

-----------------------------------------------------------------------------
(* The collision loop of the main loop.                                    *)

RECURSIVE Flatten(_)
Flatten(ss) == IF ss = << >> THEN << >> ELSE Head(ss) \o Flatten(Tail(ss))

\* "for i, dot1 in enumerate(dots): for j in range(i + 1, len(dots))"
IntraPairs(b) ==
    Flatten([i \in 1..Len(b) |-> [j \in 1..(Len(b) - i) |-> << b[i], b[i + j] >>]])

\* "for dot1 in dots: for dot2 in grid[neighbor_cell]"
CrossPairs(b, c) ==
    Flatten([i \in 1..Len(b) |-> [j \in 1..Len(c) |-> << b[i], c[j] >>]])

\* the cells the neighbour loop looks up for one cell
NeighborCells(cell) ==
    [k \in 1..Len(neighbor_offsets) |->
        << cell[1] + neighbor_offsets[k][1], cell[2] + neighbor_offsets[k][2] >>]

NeighborPairs(g, entry) ==
    Flatten([k \in 1..Len(neighbor_offsets) |->
        IF HasCell(g, NeighborCells(entry.cell)[k])
        THEN CrossPairs(entry.dots, Bucket(g, NeighborCells(entry.cell)[k]))
        ELSE << >>])

\* every (dot1, dot2) the loop passes to detect_collision, in order
CandidatePairs(g) ==
    Flatten([k \in 1..Len(g) |-> IntraPairs(g[k].dots) \o NeighborPairs(g, g[k])])

AllPairs(n) == { {i, j} : i \in 1..n, j \in 1..n } \ { {i} : i \in 1..n }

\* one "if detect_collision(...): resolve_collision(...)"
PairStep(st, pr) ==
    LET key == {pr[1], pr[2]}
        hit == detect_collision(st.dots[pr[1]], st.dots[pr[2]])
        out == resolve_collision(st.dots[pr[1]], st.dots[pr[2]])
    IN  IF st.raised THEN st
        ELSE IF ~hit THEN [st EXCEPT !.tested = @ \cup {key}]
        ELSE [dots   |-> [st.dots EXCEPT ![pr[1]].vel = out.vel1,
                                         ![pr[2]].vel = out.vel2],
              calls  |-> [st.calls EXCEPT ![key] = @ + 1],
              tested |-> st.tested \cup {key},
              raised |-> out.raised]

RECURSIVE CollisionLoop(_, _)
CollisionLoop(st, prs) ==
    IF prs = << >> THEN st ELSE CollisionLoop(PairStep(st, Head(prs)), Tail(prs))

-----------------------------------------------------------------------------
(* Dot.check_visibility.                                                   *)

check_visibility(dot, offset, zoom, window) ==
    LET x == RMul(RAdd(dot.pos[1], offset[1]), zoom)
        y == RMul(RAdd(dot.pos[2], offset[2]), zoom)
    IN  /\ RLe(R(-dot.size), x) /\ RLe(x, R(window[1] + dot.size))
        /\ RLe(R(-dot.size), y) /\ RLe(y, R(window[2] + dot.size))

\* "for cell in grid: sum(map(Dot.check_visibility, grid[cell]))"
InGrid(g, i) == \E k \in 1..Len(g) : \E j \in 1..Len(g[k].dots) : g[k].dots[j] = i

Visibility(ds, g, offset, zoom, window) ==
    [i \in 1..Len(ds) |->
        IF InGrid(g, i)
        THEN [ds[i] EXCEPT !.visible = check_visibility(ds[i], offset, zoom, window)]
        ELSE ds[i]]

-----------------------------------------------------------------------------
(* The MOUSEWHEEL handler's arithmetic.                                    *)

ZoomMin == << 1, 10 >>
ZoomMax == R(3)

\* a clamp without the upper limit
ClampZoomBelowOnly(z) == RMax(ZoomMin, z)

ClampZoom(z) == RMax(ZoomMin, RMin(z, ZoomMax))

\* y is event.y; "0.05 if event.y > 0 else -0.05"
zoom_factor(y) == IF y > 0 THEN << 1, 20 >> ELSE << -1, 20 >>

zoom_speed(zoom) == RAdd(<< 1, 2 >>, RDiv(zoom, R(3)))

new_zoom(zoom, y) == ClampZoom(RAdd(zoom, RMul(zoom_factor(y), zoom_speed(zoom))))

\* the correction applied with the wrong sign
RecenterAway(off, m, zoom, nz) == RAdd(off, RSub(RDiv(R(m), zoom), RDiv(R(m), nz)))

\* "CURRENT_POSITION[k] -= mouse / current_zoom - mouse / new_zoom"
Recenter(off, m, zoom, nz) == RSub(off, RSub(RDiv(R(m), zoom), RDiv(R(m), nz)))

-----------------------------------------------------------------------------
(* Bounds and the inputs the model draws from.                             *)

MaxTicks == 2       \* frames per run
MaxDen == 16        \* a frame starts only from coordinates k / d with d <= MaxDen
MaxEvents == 1      \* input events per run, physics runs
MaxWheel == 1       \* wheel events per run
CamTicks == 1       \* frames per run, camera runs
CamEvents == 2      \* input events per run, camera runs

MinSize == 13
MaxSize == GRID_SIZE - 6

\* two-dot worlds: random.randint positions next to the corner walls, either
\* side of the cell border at 25, two cells away, and next to the far walls
PosSet == { <<1, 1>>, <<23, 24>>, <<27, 24>>, <<27, 27>>, <<50, 24>>,
            <<5999, 4499>> }
VelSet == { <<1, 0>>, <<-1, -1>> }
SizeSet == { MinSize, MaxSize }

\* three-dot worlds: the dots in a row at distinct places, moving along it
RowPosSet == { <<23, 24>>, <<27, 24>>, <<50, 24>> }
RowVelSet == { <<1, 0>>, <<-1, 0>> }

\* the zoom of a fresh program, and the two values the clamp itself stores:
\* every wheel step moves the zoom by at least 0.025, so wheeling one way long
\* enough leaves current_zoom at exactly 0.1 or exactly 3, and runs may start
\* there (the exact zoom after n steps from 1 has a denominator near 60^n)
ZoomStart == { R(1), ZoomMin, ZoomMax }

MousePts == { <<400, 300>>, <<0, 0>> }
WheelY == { 1, -1 }
RelSet == { <<30, -20>> }
WindowSet == { <<1024, 768>> }
Keys == { "e", "escape" }

\* worlds of the camera runs: dots around the left edge of the first view
CamPosSet == { <<3400, 2550>>, <<2990, 2550>> }

NewDot(p, v, s) ==
    [pos |-> << R(p[1]), R(p[2]) >>, vel |-> << R(v[1]), R(v[2]) >>,
     size |-> s, visible |-> FALSE]

DotChoices == { NewDot(p, v, s) : p \in PosSet, v \in VelSet, s \in SizeSet }
RowChoices == { NewDot(p, v, s) : p \in RowPosSet, v \in RowVelSet, s \in SizeSet }
CamDotChoices == { NewDot(p, <<0, 0>>, s) : p \in CamPosSet, s \in SizeSet }

Rows == { w \in [1..3 -> RowChoices] :
            \A i, j \in 1..3 : i # j => w[i].pos # w[j].pos }
Worlds == [1..2 -> DotChoices] \cup Rows
CamWorlds == [1..2 -> CamDotChoices]

NoCalls(n) == [pr \in AllPairs(n) |-> 0]

InitWith(worlds, ticks, events) ==
    /\ DOTS \in worlds
    /\ grid = << >>
    /\ current_zoom \in ZoomStart
    /\ CURRENT_POSITION = InitialPosition
    /\ WINDOW_SIZE = InitialWindow
    /\ mouse = << 0, 0 >>
    /\ is_paused = FALSE
    /\ running = TRUE
    /\ pc = "loop"
    /\ last = "init"
    /\ adv = DOTS
    /\ calls = NoCalls(Len(DOTS))
    /\ tested = {}
    /\ before = [zoom |-> current_zoom, offset |-> CURRENT_POSITION]
    /\ ticksLeft = ticks
    /\ eventsLeft = events
    /\ wheelLeft = MaxWheel

Init == InitWith(Worlds, MaxTicks, MaxEvents)
InitCam == InitWith(CamWorlds, CamTicks, CamEvents)

-----------------------------------------------------------------------------
(* The event handlers of the main loop.                                    *)

Event(name) ==
    /\ pc = "loop"
    /\ eventsLeft > 0
    /\ eventsLeft' = eventsLeft - 1
    /\ last' = name
    /\ UNCHANGED << DOTS, grid, pc, adv, calls, tested, ticksLeft >>

Quit ==
    /\ Event("quit")
    /\ running' = FALSE
    /\ UNCHANGED << current_zoom, CURRENT_POSITION, WINDOW_SIZE, mouse,
                    is_paused, before, wheelLeft >>

KeyDown(key) ==
    /\ Event("key")
    /\ is_paused' = IF key = "e" THEN ~is_paused ELSE is_paused
    /\ running' = IF key = "escape" THEN FALSE ELSE running
    /\ UNCHANGED << current_zoom, CURRENT_POSITION, WINDOW_SIZE, mouse,
                    before, wheelLeft >>

MouseWheel(y, m) ==
    /\ Event("wheel")
    /\ wheelLeft > 0
    /\ wheelLeft' = wheelLeft - 1
    /\ mouse' = m
    /\ before' = [zoom |-> current_zoom, offset |-> CURRENT_POSITION]
    /\ current_zoom' = new_zoom(current_zoom, y)
    /\ CURRENT_POSITION' =
          << Recenter(CURRENT_POSITION[1], m[1], current_zoom, new_zoom(current_zoom, y)),
             Recenter(CURRENT_POSITION[2], m[2], current_zoom, new_zoom(current_zoom, y)) >>
    /\ UNCHANGED << WINDOW_SIZE, is_paused, running >>

\* button2 is event.buttons[2]
MouseMotion(rel, button2) ==
    /\ Event("motion")
    /\ CURRENT_POSITION' =
          IF button2
          THEN << RAdd(CURRENT_POSITION[1], RDiv(R(rel[1]), current_zoom)),
                  RAdd(CURRENT_POSITION[2], RDiv(R(rel[2]), current_zoom)) >>
          ELSE CURRENT_POSITION
    /\ UNCHANGED << current_zoom, WINDOW_SIZE, mouse, is_paused, running,
                    before, wheelLeft >>

VideoResize(size) ==
    /\ Event("resize")
    /\ WINDOW_SIZE' = size
    /\ UNCHANGED << current_zoom, CURRENT_POSITION, mouse, is_paused, running,
                    before, wheelLeft >>

-----------------------------------------------------------------------------
(* The rest of one pass of the main loop: the physics, unless paused, and  *)
(* the visibility pass.  An exception ends the program where it is raised. *)

Moved(ds) == [i \in 1..Len(ds) |-> update(ds[i])]

Collided(ds, g) ==
    CollisionLoop([dots |-> ds, calls |-> NoCalls(Len(ds)), tested |-> {},
                   raised |-> FALSE],
                  CandidatePairs(g))

AfterFrame == IF running THEN "loop" ELSE "quit"

Tick ==
    LET ds == Moved(DOTS)
        g  == Rebuild(ds, 1, NewGrid, current_zoom)
        st == Collided(ds, g)
    IN  /\ ~is_paused
        /\ last' = "tick"
        /\ grid' = g
        /\ adv' = ds
        /\ calls' = st.calls
        /\ tested' = st.tested
        /\ IF st.raised
           THEN /\ DOTS' = st.dots
                /\ pc' = "crashed"
           ELSE /\ DOTS' = Visibility(st.dots, g, CURRENT_POSITION, current_zoom,
                                      WINDOW_SIZE)
                /\ pc' = AfterFrame

\* paused: "grid" is whatever the last tick left; before the first tick the
\* name is unbound and the visibility pass raises NameError
PausedFrame ==
    /\ is_paused
    /\ last' = "paused"
    /\ IF grid = << >>
       THEN /\ pc' = "crashed"
            /\ DOTS' = DOTS
       ELSE /\ pc' = AfterFrame
            /\ DOTS' = Visibility(DOTS, grid, CURRENT_POSITION, current_zoom,
                                  WINDOW_SIZE)
    /\ UNCHANGED << grid, adv, calls, tested >>

\* exact coordinates stay within the model's integers
Precise(ds) ==
    \A i \in 1..Len(ds) : \A k \in 1..2 :
        ds[i].pos[k][2] <= MaxDen /\ ds[i].vel[k][2] <= MaxDen

Frame ==
    /\ pc = "loop"
    /\ ticksLeft > 0
    /\ Precise(DOTS)
    /\ ticksLeft' = ticksLeft - 1
    /\ (Tick \/ PausedFrame)
    /\ UNCHANGED << current_zoom, CURRENT_POSITION, WINDOW_SIZE, mouse,
                    is_paused, running, before, eventsLeft, wheelLeft >>

\* physics runs: many worlds, and of the input only the pause key
Next ==
    \/ Frame
    \/ KeyDown("e")

\* camera runs: few worlds, every input event

NextCam ==
    \/ Frame
    \/ Quit
    \/ \E key \in Keys : KeyDown(key)
    \/ \E y \in WheelY, m \in MousePts : MouseWheel(y, m)
    \/ \E rel \in RelSet, b \in BOOLEAN : MouseMotion(rel, b)
    \/ \E size \in WindowSet : VideoResize(size)

Spec == Init /\ [][Next]_vars
SpecCam == InitCam /\ [][NextCam]_vars

-----------------------------------------------------------------------------
(* Vocabulary of the properties.                                           *)

Pairs == AllPairs(Len(DOTS))
Lo(pr) == CHOOSE i \in pr : \A j \in pr : i <= j
Hi(pr) == CHOOSE i \in pr : \A j \in pr : j <= i

\* where the last rebuild put dot i: the (item, place) positions holding i
RefsOf(g, i) ==
    { kj \in UNION { {k} \X (1..Len(g[k].dots)) : k \in 1..Len(g) } :
        g[kj[1]].dots[kj[2]] = i }

CellOf(g, i) == g[(CHOOSE kj \in RefsOf(g, i) : TRUE)[1]].cell

Adjacent(c1, c2) ==
    /\ c1 # c2
    /\ Abs(c1[1] - c2[1]) <= 1
    /\ Abs(c1[2] - c2[2]) <= 1

Coincide(a, b) == a.pos = b.pos

\* (b.vel - a.vel) . (b.pos - a.pos): the sign of the relative velocity
\* along the normal from a to b
Approach(a, b) ==
    RAdd(RMul(RSub(b.vel[1], a.vel[1]), RSub(b.pos[1], a.pos[1])),
         RMul(RSub(b.vel[2], a.vel[2]), RSub(b.pos[2], a.pos[2])))

DistSq(a, b) ==
    RAdd(RMul(RSub(b.pos[1], a.pos[1]), RSub(b.pos[1], a.pos[1])),
         RMul(RSub(b.pos[2], a.pos[2]), RSub(b.pos[2], a.pos[2])))

\* k * n on axis c, over the distance: k = 2 * vn / (ma + mb), vn = Approach / dist,
\* n = (b.pos - a.pos) / dist
KN(a, b, c) ==
    RDiv(RMul(RMul(R(2), Approach(a, b)), RSub(b.pos[c], a.pos[c])),
         RMul(R(a.size + b.size), DistSq(a, b)))

RECURSIVE MomentumUpTo(_, _, _)
MomentumUpTo(ds, c, n) ==
    IF n = 0 THEN R(0)
    ELSE RAdd(MomentumUpTo(ds, c, n - 1), RMul(R(ds[n].size), ds[n].vel[c]))

\* the mass-weighted velocity sum of all dots on axis c
Momentum(ds, c) == MomentumUpTo(ds, c, Len(ds))

InBounds(dot) ==
    \A c \in 1..2 :
        /\ RLe(R(dot.size), dot.pos[c])
        /\ RLe(dot.pos[c], R(WORLD_SIZE[c] - dot.size))

\* floor(x * zoom / GRID_SIZE) on both axes
FloorCell(pos, zoom) ==
    [c \in 1..2 |-> (pos[c][1] * zoom[1]) \div (pos[c][2] * zoom[2] * GRID_SIZE)]

\* the drawn circle's bounding box, centre (pos + offset) * zoom and
\* half-width size * zoom, meets [0, width] x [0, height]
BoxOnScreen(dot, offset, zoom, window) ==
    \A c \in 1..2 :
        LET centre == RMul(RAdd(dot.pos[c], offset[c]), zoom)
            half   == RMul(R(dot.size), zoom)
        IN  /\ RLe(R(0), RAdd(centre, half))
            /\ RLe(RSub(centre, half), R(window[c]))

worldToScreen(p, off, zoom) == RMul(RAdd(p, off), zoom)

Ticked == last = "tick"

-----------------------------------------------------------------------------
(* C1: in one non-paused tick, resolve_collision is invoked at most once   *)
(* for every pair of dots that lie in two different grid cells.            *)
C1_CrossCellPairResolvedAtMostOnce ==
    Ticked =>
        \A pr \in Pairs :
            CellOf(grid, Lo(pr)) # CellOf(grid, Hi(pr)) => calls[pr] <= 1

(* C2: two dots alone in the world, in two adjacent cells after advancing, *)
(* overlapping and approaching: the tick changes each velocity by exactly  *)
(* one elastic impulse, a.vel + k*mb*n and b.vel - k*ma*n.                 *)
C2_Case ==
    /\ Ticked
    /\ Len(DOTS) = 2
    /\ Adjacent(CellOf(grid, 1), CellOf(grid, 2))
    /\ detect_collision(adv[1], adv[2])
    /\ Approach(adv[1], adv[2])[1] < 0

C2_ExactlyOneImpulse ==
    C2_Case =>
        \A c \in 1..2 :
            /\ DOTS[1].vel[c] =
                  RAdd(adv[1].vel[c], RMul(R(adv[2].size), KN(adv[1], adv[2], c)))
            /\ DOTS[2].vel[c] =
                  RSub(adv[2].vel[c], RMul(R(adv[1].size), KN(adv[1], adv[2], c)))

C2_Witness == C2_Case /\ DOTS[1].vel # adv[1].vel /\ calls[{1, 2}] = 2

(* C3: after Dot.update every dot has size <= pos <= WORLD_SIZE - size on  *)
(* both axes, and so at the end of every tick and ever after.              *)
\* velocities far beyond what a dot of the program ever has
FastVelSet == { <<-7000, 5000>>, <<7000, -5000>>, <<5, -5>> }

C3_WallContainment ==
    /\ grid # << >> =>
          \A i \in 1..Len(DOTS) : InBounds(adv[i]) /\ InBounds(DOTS[i])
    /\ Precise(DOTS) =>
          \A i \in 1..Len(DOTS) : \A v \in FastVelSet :
              InBounds(update([DOTS[i] EXCEPT !.vel = << R(v[1]), R(v[2]) >>]))

\* a dot that started inside the wall margin was put on the near walls,
\* another on the far walls
C3_Witness ==
    /\ Ticked
    /\ \E i \in 1..Len(DOTS) :
          DOTS[i].pos = << R(DOTS[i].size), R(DOTS[i].size) >>
    /\ \E j \in 1..Len(DOTS) :
          DOTS[j].pos = << R(WORLD_SIZE[1] - DOTS[j].size),
                           R(WORLD_SIZE[2] - DOTS[j].size) >>

(* C4: after the rebuild of a non-paused tick every dot is in exactly one  *)
(* bucket, once, the bucket keyed by the floor of its position over the    *)
(* cell size; the buckets hold as many references as there are dots.       *)
C4_GridCompleteness ==
    Ticked =>
        /\ \A i \in 1..Len(DOTS) :
              /\ Cardinality(RefsOf(grid, i)) = 1
              /\ CellOf(grid, i) = FloorCell(DOTS[i].pos, current_zoom)
        /\ \A k, l \in 1..Len(grid) : grid[k].cell = grid[l].cell => k = l
        /\ \A k \in 1..Len(grid) : \A j \in 1..Len(grid[k].dots) :
              grid[k].dots[j] \in 1..Len(DOTS)

\* the second of two ticks; two of three dots share a bucket
C4_Witness ==
    /\ Ticked
    /\ ticksLeft <= MaxTicks - 2
    /\ eventsLeft = MaxEvents
    /\ Len(DOTS) = 3
    /\ Len(grid) = 2

(* C5: the cell size is at least twice the largest radius, so every pair   *)
(* for which detect_collision is true lies in the same or in adjacent      *)
(* cells and is tested in the tick.                                        *)
C5_BroadPhaseMissesNothing ==
    (Ticked /\ pc # "crashed") =>
        \A pr \in Pairs :
            detect_collision(DOTS[Lo(pr)], DOTS[Hi(pr)]) => pr \in tested

(* C6: resolving two dots with coincident centres is a no-op: no division  *)
(* by zero, velocities unchanged, the tick completes.                      *)
C6_CoincidentCentresNoOp ==
    Ticked =>
        \A pr \in Pairs :
            (Coincide(adv[Lo(pr)], adv[Hi(pr)]) /\ calls[pr] > 0) =>
                /\ pc # "crashed"
                /\ DOTS[Lo(pr)].vel = adv[Lo(pr)].vel
                /\ DOTS[Hi(pr)].vel = adv[Hi(pr)].vel

(* C7: resolve_collision on two dots with distinct centres leaves          *)
(* size1*vel1 + size2*vel2 unchanged, so the collision phase of a tick     *)
(* leaves the total mass-weighted momentum unchanged.                      *)
C7_PerCall(a, b) ==
    LET out == resolve_collision(a, b)
    IN  \A c \in 1..2 :
            RAdd(RMul(R(a.size), out.vel1[c]), RMul(R(b.size), out.vel2[c]))
                = RAdd(RMul(R(a.size), a.vel[c]), RMul(R(b.size), b.vel[c]))

C7_MomentumConserved ==
    /\ Ticked => \A c \in 1..2 : Momentum(DOTS, c) = Momentum(adv, c)
    /\ Precise(DOTS) =>
          \A i, j \in 1..Len(DOTS) :
              (i # j /\ ~Coincide(DOTS[i], DOTS[j])
                     /\ detect_collision(DOTS[i], DOTS[j]))
                  => C7_PerCall(DOTS[i], DOTS[j])

\* a tick in which dots of different sizes exchanged an impulse
C7_Witness ==
    /\ Ticked
    /\ \E pr \in Pairs :
          /\ calls[pr] > 0
          /\ DOTS[Lo(pr)].size # DOTS[Hi(pr)].size
          /\ DOTS[Lo(pr)].vel # adv[Lo(pr)].vel

C9_ZoomInRange == RLe(<< 1, 10 >>, current_zoom) /\ RLe(current_zoom, R(3))

\* wheel steps that the clamp cut short, at either end
C9_Witness ==
    /\ last = "wheel"
    /\ before.zoom = current_zoom
    /\ current_zoom \in { ZoomMin, ZoomMax }

(* C10: after a wheel step the world point that was under the mouse is     *)
(* still under the mouse: worldToScreen maps it to the mouse position.     *)
C10_ZoomKeepsMousePoint ==
    last = "wheel" =>
        \A c \in 1..2 :
            LET under == RSub(RDiv(R(mouse[c]), before.zoom), before.offset[c])
            IN  /\ worldToScreen(under, before.offset[c], before.zoom) = R(mouse[c])
                /\ worldToScreen(under, CURRENT_POSITION[c], current_zoom) = R(mouse[c])

\* a step that changed the zoom, away from the screen origin
C10_Witness ==
    /\ last = "wheel"
    /\ mouse = << 400, 300 >>
    /\ current_zoom # before.zoom
    /\ CURRENT_POSITION # before.offset

====
